---- MODULE Spec2Model ----
(***************************************************************************)
(* Note life-cycle and synthesis engine of keyboard-music (src/src/notes.rs *)
(* with the key<->note tables of src/src/keymaps.rs).                       *)
(*                                                                          *)
(* Number representation.  The program computes in f32; the model computes  *)
(* in exact integers on fixed grids, chosen so that every value the model   *)
(* reaches is exact:                                                        *)
(*   - a volume or gain v stands for v / (2 * MAX_VOLUME), so 0.5 is        *)
(*     MAX_VOLUME units; MAX_VOLUME is divisible by every note count and    *)
(*     every buffer length the bounds allow;                                *)
(*   - a phase p stands for p quarter turns (TAU is 4 units), where sin is  *)
(*     exactly 0, 1, 0, -1;                                                 *)
(*   - the sample rate is 4 * BASE_NOTE_FREQ, so the reference pitch        *)
(*     advances one quarter turn per sample, and the configured pitches are *)
(*     whole octaves at or above the reference, where powf is a power of 2. *)
(* f32 rounding is not modelled.                                            *)
(*                                                                          *)
(* Specifications.  Spec: Notes built from a valid keymap, then any         *)
(* sequence of update_keys and generate_audio.  SpecRetrigger: Spec with    *)
(* the removed notes recorded.  SpecOrder: Spec with the snapshot recorded  *)
(* as the sequence it was passed as.  SpecConfig: Notes::new on a keymap    *)
(* configuration that may be invalid, then update_keys on snapshots of any  *)
(* u8 key id (no rendering: the pitches there are not whole octaves).       *)
(* SpecWave: any sequence of calls on a generator of src/src/wave/.         *)
(* SpecUpdateWave: the note map next to a generator that is driven and      *)
(* replaced.  SpecPhases: the note map next to a generator under any        *)
(* sequence of calls.  SpecVis: the event loop of src/src/vis/ with its     *)
(* draw step.  SpecMain: the sampling loop and the render callback          *)
(* of src/src/main.rs, interleaved.  Each specification leaves the          *)
(* components it does not name idle.                                        *)
(***************************************************************************)
EXTENDS Integers, Sequences, FiniteSets, TLC

\* ------------------------------------------------------------------ bounds
\* key ids that a snapshot may contain: 0 .. NumKeys-1
NumKeys == 3
\* longest snapshot (slice of key ids) passed to update_keys
MaxSnapLen == 2
\* longest audio buffer passed to generate_audio
MaxBufLen == 4

\* ------------------------------------------------------- program constants
MAX_VOLUME == 25200
BASE_NOTE_FREQ == 440
MIDI_OFFSET == 69
TAU == 4
MidiNoteMAX == 255
\* wave/phase.rs, wave/square.rs
U8MAX == 255
I8MAX == 127
\* Square::AMP = 0.5, in units of a half (the unit of the waveform outputs)
AMP == 1
\* main.rs: INACTIVITY_TIME, in seconds
INACTIVITY_TIME == 5
VIS_BUFFER_SIZE == 15000

\* Option<MidiNote>: None and Some(note)
None == <<>>
Some(note) == <<note>>
\* f32 infinity, the value of MAX_VOLUME / 0.0
Inf == "inf"

\* the outcome of a call: it panicked, or it returned x
Panic == <<>>
Done(x) == <<x>>

\* a - b and a + b on i8: with overflow checks (debug builds) an overflow
\* panics, without them (release builds) it wraps
SubI8(a, b) ==
    LET r == a - b
    IN  IF r < -128 THEN {Panic, Done(r + 256)}
        ELSE IF r > 127 THEN {Panic, Done(r - 256)}
        ELSE {Done(r)}

AddI8(a, b) ==
    LET r == a + b
    IN  IF r < -128 THEN {Panic, Done(r + 256)}
        ELSE IF r > 127 THEN {Panic, Done(r - 256)}
        ELSE {Done(r)}

\* vec[i as usize] on a Vec of len slots: a negative i8 becomes an index
\* beyond every Vec
InBounds(len, i) == 0 <= i /\ i < len

VARIABLES
    renderer,       \* vis: which draw step the window uses
    audio_data,     \* vis: the length of the VecDeque<f32> behind the Mutex
    wave_vertices,  \* vis: the length of the wave's vertex list
    vis_state,      \* vis: Option<(PossiblyCurrentContext, bool)>: the paused flag
    drawn,          \* vis: how the last RedrawRequested event ended
    keymap,         \* args.keymap.get_map(): key name -> Option<pitch>
    key_to_note,    \* Notes.key_to_note : Vec<Option<MidiNote>>
    note_to_key,    \* Notes.note_to_key : Vec<Vec<MidiNote>>
    notes,          \* Notes.notes : HashMap<i8, NoteState>
    op,             \* the call that produced this state
    arg,            \* its argument: the snapshot's key set, or the buffer passed in
    prev,           \* Notes.notes as the call found it
    buf,            \* the buffer as generate_audio left it (empty otherwise)
    gains,          \* per note, the gain generate_audio applied at each sample
    snapshot,       \* the key set of the most recent update_keys call
    dropped,        \* per note removed at a phase # 0, not rendered since: that phase
    order,          \* the snapshot of the most recent update_keys call, as passed
    gen,            \* the Box<dyn WaveGenerator> that Wave::generator returned
    call,           \* the last call on the generator: name, argument, return value
    ended,          \* per note, the phase at the end of its last buffer (mod TAU)
    loaded,         \* what the last before() loaded, whether next() ran since,
                    \* and whether no after() has committed since
    mutex,          \* main.rs: who holds the Mutex of active_keys
    shared,         \* main.rs: the Vec<MidiNote> inside Arc<Mutex<..>> (active_keys)
    spc,            \* main.rs: where the sampling loop is
    keys,           \* main.rs: the keys of the sampling loop's last poll
    elapsed,        \* main.rs: last_key_press.elapsed(), in seconds, capped
    is_paused,      \* StreamWrapper.is_paused
    playing,        \* the state of the cpal stream
    stream_call,    \* the last call on the StreamWrapper, and whether it returned Ok
    rpc,            \* main.rs: where the render callback is
    note_phases,    \* main.rs: the callback's map of note -> phase
    read,           \* what the callback's last read of active_keys saw
    published       \* the key set of the last poll whose extend is done

notesVars == <<keymap, key_to_note, note_to_key, notes, op, arg, prev, buf,
               gains, snapshot, dropped, order>>

waveVars == <<gen, call, ended, loaded>>

mainVars == <<mutex, shared, spc, keys, elapsed, is_paused, playing,
              stream_call, rpc, note_phases, read, published>>

visVars == <<renderer, audio_data, wave_vertices, vis_state, drawn>>

vars == <<notesVars, waveVars, mainVars, visVars>>

\* ------------------------------------------------------------ small helpers
Range(s) == {s[i] : i \in DOMAIN s}

RECURSIVE Pow2(_)
Pow2(n) == IF n <= 0 THEN 1 ELSE 2 * Pow2(n - 1)

RECURSIVE SumOver(_, _)
SumOver(S, f) ==
    IF S = {} THEN 0
    ELSE LET x == CHOOSE y \in S : TRUE IN f[x] + SumOver(S \ {x}, f)

\* `x as i8` for x : u8
AsI8(x) == IF x >= 128 THEN x - 256 ELSE x

\* f32::sin on the quarter-turn grid
Sin(p) == LET q == p % TAU IN IF q = 1 THEN 1 ELSE IF q = 3 THEN -1 ELSE 0

\* ------------------------------------------------------------- keymaps.rs
Keys == 0 .. (NumKeys - 1)

\* keymap configurations: key id -> Option<pitch>; a key that is not listed
\* stays unmapped
KeyMapConfigs ==
    { (0 :> Some(69)) @@ (1 :> Some(81)) @@ (2 :> None),
      (0 :> Some(69)) @@ (1 :> Some(81)) @@ (2 :> Some(69)),
      (0 :> Some(69)) @@ (1 :> Some(81)) @@ (2 :> Some(93)) }

\* serde_json::from_value into HashMap<String, Option<MidiNote>>: a pitch
\* has to be a u8
Deserializes(map) ==
    \A k \in DOMAIN map :
        map[k] = None \/ (0 <= map[k][1] /\ map[k][1] <= MidiNoteMAX)

\* Keycode::from_str: the key names are written as their key ids; a name
\* outside Keys is no Keycode
Keycode_from_str(name) == IF name \in Keys THEN Some(name) ELSE None

\* mutant: a pitch's slot of note_to_key is overwritten, not pushed to
generate_maps_Overwrite(map) ==
    LET k2n == [k \in {j \in DOMAIN map : map[j] # None} |-> map[k]]
        pitches == {k2n[k][1] : k \in DOMAIN k2n}
        n2k == [n \in pitches |->
                   <<CHOOSE k \in DOMAIN k2n :
                        /\ k2n[k] = Some(n)
                        /\ \A j \in DOMAIN k2n : k2n[j] = Some(n) => j <= k>>]
    IN  IF ~Deserializes(map) THEN [kind |-> "Err"]
        ELSE IF \E name \in DOMAIN map : Keycode_from_str(name) = None
             THEN [kind |-> "Err"]
        ELSE IF \E n \in pitches : ~InBounds(MidiNoteMAX, n)
             THEN [kind |-> "panic"]
             ELSE [kind |-> "Ok", key_to_note |-> k2n, note_to_key |-> n2k]

\* The two Vecs have MidiNoteMAX slots each.  The result holds the slots
\* that differ from the fill value (None, the empty list); VecAt reads a slot.
\* kind: "Ok" with the tables, "Err" (the ? on from_value), or "panic" (the
\* index of note_to_key out of bounds).
generate_maps(map) ==
    LET k2n == [k \in {j \in DOMAIN map : map[j] # None} |-> map[k]]
        keycodes == [i \in 1 .. MidiNoteMAX |-> i - 1]
        pitches == {k2n[k][1] : k \in DOMAIN k2n}
        n2k == [n \in pitches |->
                   SelectSeq(keycodes,
                             LAMBDA k : k \in DOMAIN k2n /\ k2n[k] = Some(n))]
    IN  IF ~Deserializes(map) THEN [kind |-> "Err"]
        ELSE IF \E name \in DOMAIN map : Keycode_from_str(name) = None
             THEN [kind |-> "Err"]
        ELSE IF \E n \in pitches : ~InBounds(MidiNoteMAX, n)
             THEN [kind |-> "panic"]
             ELSE [kind |-> "Ok", key_to_note |-> k2n, note_to_key |-> n2k]

\* vec[i] for i < vec.len(), of a Vec filled with `fill`
VecAt(vec, i, fill) == IF i \in DOMAIN vec THEN vec[i] ELSE fill

\* --------------------------------------------------------------- notes.rs
\* mutant: a new note starts at full volume
NoteState_new_Loud == [active |-> TRUE, phase |-> 0, volume |-> MAX_VOLUME]

\* mutant: a new note starts a quarter turn into its wave
NoteState_new_Stale == [active |-> TRUE, phase |-> 1, volume |-> 0]

NoteState_new == [active |-> TRUE, phase |-> 0, volume |-> 0]

set_volume(state, target_volume) == [state EXCEPT !.volume = target_volume]

\* mutant: lerp without the clamp of t
lerp_NoClamp(a, b, tn, td) == ((td - tn) * a + tn * b) \div td

\* lerp(a, b, t) with t = tn / td, td > 0
lerp(a, b, tn, td) ==
    LET t == IF tn < 0 THEN 0 ELSE IF tn > td THEN td ELSE tn
    IN  ((td - t) * a + t * b) \div td

\* mutant: the fade runs from the target to the stored volume
get_volume_Swapped(state, idx, buf_len, target_volume) ==
    lerp(target_volume, state.volume, idx * 3, buf_len)

\* mutant: the fade takes the whole buffer (t is not tripled)
get_volume_NoTriple(state, idx, buf_len, target_volume) ==
    lerp(state.volume, target_volume, idx, buf_len)

\* get_volume(t, target_volume) with t = idx / buf_len
get_volume(state, idx, buf_len, target_volume) ==
    lerp(state.volume, target_volume, idx * 3, buf_len)

\* mutant: a released note keeps its share of the volume
get_target_volume_IgnoreActive(state, volume_ratio) == volume_ratio

get_target_volume(state, volume_ratio) ==
    IF state.active THEN volume_ratio ELSE 0

\* mutant: only the first key of an aliased pitch keeps its note alive
is_still_active_FirstKey(rel_midi_note, active_keys) ==
    LET ks == VecAt(note_to_key, rel_midi_note + MIDI_OFFSET, <<>>)
    IN  ks # <<>> /\ ks[1] \in Range(active_keys)

\* the closure of retain: the recomputed flag of an entry
is_still_active(rel_midi_note, active_keys) ==
    LET ks == VecAt(note_to_key, rel_midi_note + MIDI_OFFSET, <<>>)
    IN  \E i \in DOMAIN ks : ks[i] \in Range(active_keys)

\* mutant: retain keeps every entry
Retained_Always(state) == TRUE

\* mutant: retain drops a released note at once, whatever its volume
Retained_ActiveOnly(state) == state.active

\* what retain keeps of an entry whose flag has been recomputed
Retained(state) == state.active \/ state.volume > 0

\* mutant: retain decides by the recomputed flag but does not store it
Retain_NoFlag(ns, active_keys) ==
    LET kept == {n \in DOMAIN ns :
                    is_still_active(n, active_keys) \/ ns[n].volume > 0}
    IN  [n \in kept |-> ns[n]]

\* HashMap::retain over the note map
Retain(ns, active_keys) ==
    LET flagged == [n \in DOMAIN ns |->
                       [ns[n] EXCEPT !.active = is_still_active(n, active_keys)]]
        kept == {n \in DOMAIN ns : Retained(flagged[n])}
    IN  [n \in kept |-> flagged[n]]

\* mutant: a held note's entry is replaced by a new one
Entry_Restart(ns, n) ==
    [m \in DOMAIN ns \cup {n} |-> IF m = n THEN NoteState_new ELSE ns[m]]

\* entry(n).and_modify(|s| s.active = true).or_insert(NoteState::new())
Entry(ns, n) ==
    IF n \in DOMAIN ns
    THEN [ns EXCEPT ![n].active = TRUE]
    ELSE [m \in DOMAIN ns \cup {n} |-> IF m = n THEN NoteState_new ELSE ns[m]]

\* mutant: only the last key of the snapshot starts its note
StartNotes_LastOnly(ns, active_keys, i) ==
    IF Len(active_keys) = 0 THEN {Done(ns)}
    ELSE LET note == VecAt(key_to_note, active_keys[Len(active_keys)], None)
         IN  IF note = None THEN {Done(ns)}
             ELSE {Done(Entry(ns, AsI8(note[1]) - MIDI_OFFSET))}

\* the loop over active_keys, from position i on: its outcomes
RECURSIVE StartNotes(_, _, _)
StartNotes(ns, active_keys, i) ==
    IF i > Len(active_keys) THEN {Done(ns)}
    ELSE IF ~InBounds(MidiNoteMAX, active_keys[i]) THEN {Panic}
    ELSE LET note == VecAt(key_to_note, active_keys[i], None)
         IN  IF note = None
             THEN StartNotes(ns, active_keys, i + 1)
             ELSE UNION {IF r = Panic THEN {Panic}
                         ELSE StartNotes(Entry(ns, r[1]), active_keys, i + 1) :
                            r \in SubI8(AsI8(note[1]), MIDI_OFFSET)}

\* (*rel_midi_note + MIDI_OFFSET) as usize is an index of note_to_key
RetainIndexOk(rel_midi_note) ==
    \A r \in AddI8(rel_midi_note, MIDI_OFFSET) :
        r # Panic /\ InBounds(MidiNoteMAX, r[1])

\* the outcomes of update_keys on the note map ns
update_outcomes(ns, active_keys) ==
    IF \E n \in DOMAIN ns : ~RetainIndexOk(n) THEN {Panic}
    ELSE StartNotes(Retain(ns, active_keys), active_keys, 1)

Snapshots == UNION {[1 .. l -> Keys] : l \in 0 .. MaxSnapLen}

\* the Notes value exists and no call on it has panicked
Alive == op \in {"new", "update_keys", "generate_audio", "update_wave"}

\* bookkeeping of the removed notes: a note that leaves the map with a phase
\* other than 0 is recorded with that phase
Dropped(ns, after) ==
    LET gone == {n \in DOMAIN ns \ DOMAIN after : ns[n].phase # 0}
    IN  [n \in DOMAIN dropped \cup gone |->
            IF n \in gone THEN ns[n].phase ELSE dropped[n]]

update_keys(active_keys) ==
    /\ Alive
    /\ \E out \in update_outcomes(notes, active_keys) :
          IF out = Panic
          THEN /\ op' = "panic in update_keys"
               /\ UNCHANGED notes
          ELSE /\ op' = "update_keys"
               /\ notes' = out[1]
    /\ arg' = Range(active_keys)
    /\ snapshot' = Range(active_keys)
    /\ prev' = notes
    /\ buf' = <<>>
    /\ gains' = <<>>
    /\ UNCHANGED <<keymap, key_to_note, note_to_key>>

\* base_factor = FREQ_FACTOR / sample_rate, in quarter turns per sample
SampleRate == 4 * BASE_NOTE_FREQ
base_factor == (BASE_NOTE_FREQ * TAU) \div SampleRate

\* base_factor * pitch_factor.powf(rel_midi_note), rel_midi_note a whole
\* number of octaves >= 0
wave_factor(rel_midi_note) == base_factor * Pow2(rel_midi_note \div 12)

note_volume_ratio(ns) ==
    IF Cardinality(DOMAIN ns) = 0 THEN Inf
    ELSE MAX_VOLUME \div Cardinality(DOMAIN ns)

\* mutant: every sample is scaled by the volume ratio alone, no fade
GainAt_Flat(ns, n, idx, buf_len) == note_volume_ratio(ns)

\* the gain of note n at sample idx (0-based) of a buffer of buf_len samples
GainAt(ns, n, idx, buf_len) ==
    get_volume(ns[n], idx, buf_len,
               get_target_volume(ns[n], note_volume_ratio(ns)))

\* the note's term of sample idx
WaveAt(ns, n, idx) == Sin(ns[n].phase + idx * wave_factor(n))

\* mutant: the buffer is zero-filled before the notes are mixed in
Mixed_Zeroed(ns, b) ==
    [i \in DOMAIN b |->
        SumOver(DOMAIN ns,
                [n \in DOMAIN ns |->
                    WaveAt(ns, n, i - 1) * GainAt(ns, n, i - 1, Len(b))])]

\* the buffer after the loop over the notes
Mixed(ns, b) ==
    [i \in DOMAIN b |->
        b[i] + SumOver(DOMAIN ns,
                       [n \in DOMAIN ns |->
                           WaveAt(ns, n, i - 1) * GainAt(ns, n, i - 1, Len(b))])]

\* one note after its iteration of the loop
Rendered(ns, n, buf_len) ==
    [set_volume(ns[n], get_target_volume(ns[n], note_volume_ratio(ns)))
        EXCEPT !.phase = (ns[n].phase + buf_len * wave_factor(n)) % TAU]

\* buffers as the caller passes them: zeroed, or holding earlier samples
Buffers == UNION {{[i \in 1 .. l |-> 0], [i \in 1 .. l |-> 7 * i]} : l \in 0 .. MaxBufLen}

\* bookkeeping of the removed notes: a re-created note is forgotten once it
\* has been rendered
Counted(ns) == [n \in DOMAIN dropped \ DOMAIN ns |-> dropped[n]]

generate_audio(b) ==
    /\ Alive
    /\ notes' = [n \in DOMAIN notes |-> Rendered(notes, n, Len(b))]
    /\ buf' = Mixed(notes, b)
    /\ gains' = [n \in DOMAIN notes |->
                    [i \in DOMAIN b |-> GainAt(notes, n, i - 1, Len(b))]]
    /\ op' = "generate_audio"
    /\ arg' = b
    /\ prev' = notes
    /\ UNCHANGED <<keymap, key_to_note, note_to_key, snapshot>>

\* ------------------------------------------------------------------ wave/
\* The generators compute in the units of the notes: phases in quarter
\* turns.  The sample rate of the generator runs is 2 * BASE_NOTE_FREQ, so
\* the reference pitch advances two quarter turns per sample, and the notes
\* are whole octaves from one below the reference up.
SampleRateWave == 2 * BASE_NOTE_FREQ
WaveNotes == {-12, 0, 12}
Waves == {"Sine", "Square", "Triangle", "Sawtooth"}

\* x * PITCH_FACTOR.powf(rel_midi_note), on whole octaves
Scale(x, rel_midi_note) ==
    IF rel_midi_note >= 0
    THEN x * Pow2(rel_midi_note \div 12)
    ELSE x \div Pow2((0 - rel_midi_note) \div 12)

\* mutant: every note uses slot 0
note_idx_Shared(rel_midi_note) == {Done(0)}

\* Phase::note_idx: (rel_midi_note + i8::MAX) as usize
note_idx(rel_midi_note) == AddI8(rel_midi_note, I8MAX)

\* note_phases[idx] does not panic
SlotOk(idx) == idx # Panic /\ InBounds(U8MAX, idx[1])

\* note_phases with slot i set to v; the array is held as its non-zero slots
SetSlot(slots, i, v) ==
    [j \in (DOMAIN slots \ {i}) \cup (IF v = 0 THEN {} ELSE {i}) |->
        IF j = i THEN v ELSE slots[j]]

\* a variant that starts with a phase already stored for the reference pitch
Phase_new_Stale(sample_rate) ==
    [current_note |-> 0,
     current_phase |-> 0,
     note_phases |-> (note_idx(0) :> 1),
     base_factor |-> (BASE_NOTE_FREQ * TAU) \div sample_rate,
     wave_factor |-> 0]

Phase_new(sample_rate) ==
    [current_note |-> 0,
     current_phase |-> 0,
     note_phases |-> <<>>,
     base_factor |-> (BASE_NOTE_FREQ * TAU) \div sample_rate,
     wave_factor |-> 0]

\* the outcomes of Phase::clear
Phase_clear(phase, rel_midi_note) ==
    {IF SlotOk(idx)
     THEN Done([phase EXCEPT !.note_phases = SetSlot(@, idx[1], 0)])
     ELSE Panic : idx \in note_idx(rel_midi_note)}

\* the outcomes of Phase::before
Phase_before(phase, rel_midi_note) ==
    {IF SlotOk(idx)
     THEN Done([phase EXCEPT
                   !.wave_factor = Scale(phase.base_factor, rel_midi_note),
                   !.current_phase = VecAt(phase.note_phases, idx[1], 0),
                   !.current_note = rel_midi_note])
     ELSE Panic : idx \in note_idx(rel_midi_note)}

Phase_next(phase, sample_idx) ==
    phase.current_phase + sample_idx * phase.wave_factor

\* mutant: the advanced phase is stored as it is
Phase_after_NoWrap(phase, buf_len) ==
    {IF SlotOk(idx)
     THEN Done([phase EXCEPT
                   !.note_phases =
                       SetSlot(@, idx[1], Phase_next(phase, buf_len))])
     ELSE Panic : idx \in note_idx(phase.current_note)}

\* the outcomes of Phase::after
Phase_after(phase, buf_len) ==
    {IF SlotOk(idx)
     THEN Done([phase EXCEPT
                   !.note_phases =
                       SetSlot(@, idx[1], Phase_next(phase, buf_len) % TAU)])
     ELSE Panic : idx \in note_idx(phase.current_note)}

\* the waveform outputs, in halves
Sine_next(phase, sample_idx) == 2 * Sin(Phase_next(phase, sample_idx))

\* mutant: the sine itself is returned
Square_next_Raw(phase, sample_idx) == 2 * Sin(Phase_next(phase, sample_idx))

Square_next(phase, sample_idx) ==
    LET sine_wave == Sine_next(phase, sample_idx)
    IN  IF sine_wave < 0 THEN 0 - AMP ELSE IF sine_wave > 0 THEN AMP ELSE 0

\* pos = (phase % TAU) / (TAU * 0.25) is the number of the quarter turn
Triangle_next(phase, sample_idx) ==
    LET pos == Phase_next(phase, sample_idx) % TAU
    IN  IF pos < 1 THEN lerp(0, 2, pos, 1)
        ELSE IF pos < 2 THEN lerp(2, 0, pos - 1, 1)
        ELSE IF pos < 3 THEN lerp(0, -2, pos - 2, 1)
        ELSE lerp(-2, 0, pos - 3, 1)

\* pos = (phase % TAU) / (TAU * 0.5) is half the number of the quarter turn
Sawtooth_next(phase, sample_idx) ==
    LET q == Phase_next(phase, sample_idx) % TAU
    IN  IF q < 2 THEN lerp(-2, 0, q, 2) ELSE lerp(0, 2, q - 2, 2)

\* Wave::generator: each of the four generators wraps one Phase
Wave_generator(wave, sample_rate) ==
    [wave |-> wave, phase |-> Phase_new(sample_rate)]

\* WaveGenerator::clear of the generator g: none of Sine, Square, Triangle
\* and Sawtooth overrides the trait's default, which has an empty body
WaveGenerator_clear(g, rel_midi_note) == {Done(g)}

WaveGenerator_before(g, rel_midi_note) ==
    {IF o = Panic THEN Panic ELSE Done([g EXCEPT !.phase = o[1]]) :
        o \in Phase_before(g.phase, rel_midi_note)}

WaveGenerator_next(g, sample_idx) ==
    IF g.wave = "Sine" THEN Sine_next(g.phase, sample_idx)
    ELSE IF g.wave = "Square" THEN Square_next(g.phase, sample_idx)
    ELSE IF g.wave = "Triangle" THEN Triangle_next(g.phase, sample_idx)
    ELSE Sawtooth_next(g.phase, sample_idx)

WaveGenerator_after(g, buf_len) ==
    {IF o = Panic THEN Panic ELSE Done([g EXCEPT !.phase = o[1]]) :
        o \in Phase_after(g.phase, buf_len)}

\* a call on the generator, as the history records it: its name, argument
\* and return value, whether it returned, and the note that was current
Call(name, a, ret, ok) ==
    [name |-> name, arg |-> a, ret |-> ret, ok |-> ok,
     was |-> gen.phase.current_note]

\* a generator on which no call has been made
WaveIdle ==
    /\ gen = Wave_generator("Sine", SampleRateWave)
    /\ call = [name |-> "generator", arg |-> 0, ret |-> None, ok |-> TRUE,
               was |-> 0]
    /\ ended = <<>>
    /\ loaded = None

\* ---------------------------------------------------------------- main.rs
\* what device_state.get_keys() may return
Polls == {<<>>, <<0>>, <<1>>, <<0, 1>>}

\* the keymap of the runs of main
KeyMapMain == (0 :> Some(69)) @@ (1 :> Some(81)) @@ (2 :> Some(69))

\* mutant: the lock is taken without waiting for its holder
Mutex_lock_NoWait(owner) == mutex' = owner

\* active_keys.lock().unwrap(), and the drop of the guard at the end of the
\* block
Mutex_lock(owner) == mutex = "free" /\ mutex' = owner

\* mutant: the guard lives on to the end of the callback
Mutex_unlock_Late == UNCHANGED mutex

Mutex_unlock == mutex' = "free"

\* mutant: the stream is paused in every poll without keys
Inactive_Always(e) == TRUE

\* last_key_press.elapsed() > INACTIVITY_TIME
Inactive(e) == e > INACTIVITY_TIME

\* mutant: play() clears the flag and leaves the stream as it is
StreamWrapper_play_FlagOnly(ok) ==
    IF ok THEN is_paused' = FALSE /\ UNCHANGED playing
    ELSE UNCHANGED <<playing, is_paused>>

\* StreamWrapper::play and ::pause; ok: the cpal call returned Ok
StreamWrapper_play(ok) ==
    IF ok THEN playing' = TRUE /\ is_paused' = FALSE
    ELSE UNCHANGED <<playing, is_paused>>

\* mutant: pause() sets the flag before it knows the stream's answer
StreamWrapper_pause_FlagFirst(ok) ==
    IF ok THEN playing' = FALSE /\ is_paused' = TRUE
    ELSE is_paused' = TRUE /\ UNCHANGED playing

StreamWrapper_pause(ok) ==
    IF ok THEN playing' = FALSE /\ is_paused' = TRUE
    ELSE UNCHANGED <<playing, is_paused>>

\* the callback's note_phases.retain(..)
RetainPhases(phases, active_keys) ==
    [n \in {m \in DOMAIN phases : is_still_active(m, active_keys)} |->
        phases[n]]

\* the callback's loop of entry(..).or_insert(0.0)
StartPhases(phases, active_keys) ==
    LET mapped == {i \in DOMAIN active_keys :
                      VecAt(key_to_note, active_keys[i], None) # None}
        pressed == {AsI8(VecAt(key_to_note, active_keys[i], None)[1])
                        - MIDI_OFFSET : i \in mapped}
    IN  [n \in DOMAIN phases \cup pressed |->
            IF n \in DOMAIN phases THEN phases[n] ELSE 0]

\* the callback's synthesis loop: every note's phase after the buffer
AdvancePhases(phases, buf_len) ==
    [n \in DOMAIN phases |-> (phases[n] + buf_len * wave_factor(n)) % TAU]

\* main after its set-up: the stream plays, no poll has been made
MainIdle ==
    /\ mutex = "free"
    /\ shared = <<>>
    /\ spc = "poll"
    /\ keys = <<>>
    /\ elapsed = 0
    /\ is_paused = FALSE
    /\ playing = TRUE
    /\ stream_call = [name |-> "new", ok |-> TRUE]
    /\ rpc = "idle"
    /\ note_phases = <<>>
    /\ read = [keys |-> <<>>, locked |-> TRUE, complete |-> <<>>]
    /\ published = <<>>

\* ------------------------------------------------------------------- vis/
\* The sample values do not decide what is drawn first, so a sample list is
\* held as its length.  The two draw steps of the sources:
DrawSteps == {"create_gl_draw", "Renderer"}

\* the vertex list a draw step starts with: vec![] in create_gl_draw,
\* vec![0.0] in Renderer::new
InitialVertices(r) == IF r = "create_gl_draw" THEN 0 ELSE 1

\* the lengths of the buffers that arrive from the audio thread
AudioBufLens == {k * (VIS_BUFFER_SIZE \div MaxBufLen) : k \in 1 .. MaxBufLen}

\* vec.extend(audio_buf); while vec.len() > VIS_BUFFER_SIZE { vec.pop_front() }
Extended(len, audio_buf_len) ==
    IF len + audio_buf_len > VIS_BUFFER_SIZE THEN VIS_BUFFER_SIZE
    ELSE len + audio_buf_len

\* .enumerate().flat_map(|(idx, y)| vec![idx as f32, *y]).collect()
Vertices(len) == 2 * len

\* the vertex list after the branch on paused
Prepared(paused) == IF paused THEN wave_vertices ELSE Vertices(audio_data)

\* &vertices[0] on a list of len elements
FirstElement(len) == IF InBounds(len, 0) THEN "ok" ELSE "panic"

\* a window on which no event has been handled
VisIdle ==
    /\ renderer = "create_gl_draw"
    /\ audio_data = 0
    /\ wave_vertices = InitialVertices(renderer)
    /\ vis_state = None
    /\ drawn = "none"

\* Notes::new
NotesBuilt ==
    /\ key_to_note = generate_maps(keymap).key_to_note
    /\ note_to_key = generate_maps(keymap).note_to_key
    /\ notes = <<>>
    /\ op = "new"
    /\ arg = {}
    /\ prev = <<>>
    /\ buf = <<>>
    /\ gains = <<>>
    /\ snapshot = {}
    /\ dropped = <<>>
    /\ order = <<>>

\* a Notes value of the keymap without keys, on which no call is made
NotesIdle ==
    /\ keymap = <<>>
    /\ NotesBuilt

Init ==
    /\ keymap \in KeyMapConfigs
    /\ NotesBuilt
    /\ WaveIdle
    /\ MainIdle
    /\ VisIdle

UpdateKeys ==
    /\ \E active_keys \in Snapshots : update_keys(active_keys)
    /\ UNCHANGED <<dropped, order, waveVars, mainVars, visVars>>

GenerateAudio ==
    /\ \E b \in Buffers : generate_audio(b)
    /\ UNCHANGED <<dropped, order, waveVars, mainVars, visVars>>

Next == UpdateKeys \/ GenerateAudio

Spec == Init /\ [][Next]_vars

\* ------------------------------------------------------------ SpecRetrigger
\* Spec with the bookkeeping of the removed notes switched on
UpdateKeysTracked ==
    /\ \E active_keys \in Snapshots : update_keys(active_keys)
    /\ dropped' = Dropped(notes, notes')
    /\ UNCHANGED <<order, waveVars, mainVars, visVars>>

\* the buffers that main passes: zero-filled
ZeroedBuffers == {[i \in 1 .. l |-> 0] : l \in 0 .. MaxBufLen}

GenerateAudioTracked ==
    /\ \E b \in ZeroedBuffers : generate_audio(b)
    /\ dropped' = Counted(notes)
    /\ UNCHANGED <<order, waveVars, mainVars, visVars>>

NextRetrigger == UpdateKeysTracked \/ GenerateAudioTracked

SpecRetrigger == Init /\ [][NextRetrigger]_vars

\* ---------------------------------------------------------------- SpecOrder
\* Spec with the snapshot recorded as the sequence that was passed
UpdateKeysOrdered ==
    /\ \E active_keys \in Snapshots :
          update_keys(active_keys) /\ order' = active_keys
    /\ UNCHANGED <<dropped, waveVars, mainVars, visVars>>

\* rendering, here with the buffer of one full turn of the reference pitch
\* alone
GenerateAudioOrdered ==
    /\ \E b \in {z \in ZeroedBuffers : Len(z) = TAU} : generate_audio(b)
    /\ UNCHANGED <<dropped, order, waveVars, mainVars, visVars>>

NextOrder == UpdateKeysOrdered \/ GenerateAudioOrdered

SpecOrder == Init /\ [][NextOrder]_vars

\* --------------------------------------------------------------- SpecConfig
\* pitches a configuration may give a key: in range, at the edges of the
\* ranges of i8 and u8, and beyond u8
PitchChoices ==
    {None, Some(0), Some(127), Some(128), Some(200), Some(MidiNoteMAX),
     Some(MidiNoteMAX + 1)}

\* a keymap of KeyMapConfigs, or one with one key given another pitch, or one
\* with a key name that is no Keycode
ConfigInputs ==
    KeyMapConfigs
        \cup {(k :> p) @@ base :
                 base \in KeyMapConfigs, k \in Keys, p \in PitchChoices}
        \cup {(NumKeys :> Some(MIDI_OFFSET)) @@ base : base \in KeyMapConfigs}

\* key ids of a snapshot: the Keycodes, and the two largest u8 values
KeyIds == Keys \cup {MidiNoteMAX - 1, MidiNoteMAX}

SnapshotsU8 == UNION {[1 .. l -> KeyIds] : l \in 0 .. MaxSnapLen}

InitConfig ==
    /\ keymap \in ConfigInputs
    /\ key_to_note = <<>>
    /\ note_to_key = <<>>
    /\ notes = <<>>
    /\ op = "config"
    /\ arg = {}
    /\ prev = <<>>
    /\ buf = <<>>
    /\ gains = <<>>
    /\ snapshot = {}
    /\ dropped = <<>>
    /\ order = <<>>
    /\ WaveIdle
    /\ MainIdle
    /\ VisIdle

\* Notes::new; on Err or a panic no Notes value exists
Notes_new ==
    /\ op = "config"
    /\ LET maps == generate_maps(keymap)
       IN  IF maps.kind = "Ok"
           THEN /\ op' = "new"
                /\ key_to_note' = maps.key_to_note
                /\ note_to_key' = maps.note_to_key
           ELSE /\ op' = IF maps.kind = "Err"
                         THEN "Err" ELSE "panic in generate_maps"
                /\ UNCHANGED <<key_to_note, note_to_key>>
    /\ UNCHANGED <<keymap, notes, arg, prev, buf, gains, snapshot, dropped>>
    /\ UNCHANGED <<order, waveVars, mainVars, visVars>>

UpdateKeysU8 ==
    /\ \E active_keys \in SnapshotsU8 : update_keys(active_keys)
    /\ UNCHANGED <<dropped, order, waveVars, mainVars, visVars>>

NextConfig == Notes_new \/ UpdateKeysU8

SpecConfig == InitConfig /\ [][NextConfig]_vars

\* ----------------------------------------------------------------- SpecWave
\* a generator of any of the four kinds, and any sequence of calls on it
InitWave ==
    /\ NotesIdle
    /\ gen \in {Wave_generator(wave, SampleRateWave) : wave \in Waves}
    /\ call = [name |-> "generator", arg |-> 0, ret |-> None, ok |-> TRUE,
               was |-> 0]
    /\ ended = <<>>
    /\ loaded = None
    /\ MainIdle
    /\ VisIdle

\* Wave::generator: the generator is replaced by a fresh one
Generator ==
    /\ call.ok
    /\ \E wave \in Waves : gen' = Wave_generator(wave, SampleRateWave)
    /\ call' = Call("generator", 0, None, TRUE)
    /\ ended' = <<>>
    /\ loaded' = None
    /\ UNCHANGED <<notesVars, mainVars, visVars>>

Before ==
    /\ call.ok
    /\ \E rel_midi_note \in WaveNotes :
          \E o \in WaveGenerator_before(gen, rel_midi_note) :
              IF o = Panic
              THEN /\ call' = Call("before", rel_midi_note, None, FALSE)
                   /\ UNCHANGED <<gen, loaded>>
              ELSE /\ call' = Call("before", rel_midi_note, None, TRUE)
                   /\ gen' = o[1]
                   /\ loaded' = Some([phase |-> o[1].phase, sampled |-> FALSE,
                                         open |-> TRUE])
    /\ UNCHANGED <<ended, notesVars, mainVars, visVars>>

\* mutant: next() keeps the phase it returns as the current phase
NextSample_Advance ==
    /\ call.ok
    /\ \E sample_idx \in 0 .. MaxBufLen :
          /\ call' = Call("next", sample_idx,
                          Some(WaveGenerator_next(gen, sample_idx)), TRUE)
          /\ gen' = [gen EXCEPT !.phase.current_phase =
                                    Phase_next(gen.phase, sample_idx)]
    /\ loaded' = IF loaded = None THEN None
                 ELSE Some([loaded[1] EXCEPT !.sampled = TRUE])
    /\ UNCHANGED <<ended, notesVars, mainVars, visVars>>

\* next(sample_idx): the body reads the phase and assigns nothing
NextSample ==
    /\ call.ok
    /\ \E sample_idx \in 0 .. MaxBufLen :
          call' = Call("next", sample_idx,
                       Some(WaveGenerator_next(gen, sample_idx)), TRUE)
    /\ loaded' = IF loaded = None THEN None
                 ELSE Some([loaded[1] EXCEPT !.sampled = TRUE])
    /\ UNCHANGED <<gen, ended, notesVars, mainVars, visVars>>

\* after(buf_len); the history records the phase at the end of the buffer
After ==
    /\ call.ok
    /\ \E buf_len \in 0 .. MaxBufLen :
          \E o \in WaveGenerator_after(gen, buf_len) :
              IF o = Panic
              THEN /\ call' = Call("after", buf_len, None, FALSE)
                   /\ UNCHANGED <<gen, ended, loaded>>
              ELSE /\ call' = Call("after", buf_len, None, TRUE)
                   /\ gen' = o[1]
                   /\ ended' = (gen.phase.current_note :>
                                   (Phase_next(gen.phase, buf_len) % TAU))
                                @@ ended
                   /\ loaded' = IF loaded = None THEN None
                                ELSE Some([loaded[1] EXCEPT !.open = FALSE])
    /\ UNCHANGED <<notesVars, mainVars, visVars>>

\* clear(rel_midi_note): the note is no longer held
Clear ==
    /\ call.ok
    /\ \E rel_midi_note \in WaveNotes :
          /\ \E o \in WaveGenerator_clear(gen, rel_midi_note) :
                IF o = Panic
                THEN /\ call' = Call("clear", rel_midi_note, None, FALSE)
                     /\ UNCHANGED gen
                ELSE /\ call' = Call("clear", rel_midi_note, None, TRUE)
                     /\ gen' = o[1]
          /\ ended' = [n \in DOMAIN ended \ {rel_midi_note} |-> ended[n]]
    /\ loaded' = None
    /\ UNCHANGED <<notesVars, mainVars, visVars>>

NextWave == Generator \/ Before \/ NextSample \/ After \/ Clear

SpecWave == InitWave /\ [][NextWave]_vars

\* ----------------------------------------------------------- SpecUpdateWave
\* the note map of notes.rs next to a generator that is driven note by note
\* and replaced at any time
InitUpdateWave ==
    /\ keymap = KeyMapMain
    /\ NotesBuilt
    /\ gen \in {Wave_generator(wave, SampleRateWave) : wave \in Waves}
    /\ call = [name |-> "generator", arg |-> 0, ret |-> None, ok |-> TRUE,
               was |-> 0]
    /\ ended = <<>>
    /\ loaded = None
    /\ MainIdle
    /\ VisIdle

\* the control operation: the active generator is replaced wholesale by a
\* freshly constructed one of the chosen kind
update_wave(new_wave_kind) ==
    /\ gen' = Wave_generator(new_wave_kind, SampleRateWave)
    /\ UNCHANGED <<keymap, key_to_note, note_to_key, notes>>

\* the history records how many notes had a phase stored before the swap
UpdateWave ==
    /\ call.ok /\ Alive
    /\ \E new_wave_kind \in Waves : update_wave(new_wave_kind)
    /\ call' = Call("generator", 0,
                    Some(Cardinality(DOMAIN gen.phase.note_phases)), TRUE)
    /\ ended' = <<>>
    /\ loaded' = None
    /\ op' = "update_wave" /\ arg' = {} /\ prev' = notes
    /\ UNCHANGED <<buf, gains, snapshot, dropped, order, mainVars, visVars>>

UpdateKeysFew ==
    /\ call.ok
    /\ \E active_keys \in {<<>>, <<0>>} : update_keys(active_keys)
    /\ UNCHANGED <<dropped, order, waveVars, mainVars, visVars>>

GenerateAudioOne ==
    /\ call.ok
    /\ generate_audio(<<0>>)
    /\ UNCHANGED <<dropped, order, waveVars, mainVars, visVars>>

NextUpdateWave ==
    UpdateWave \/ UpdateKeysFew \/ GenerateAudioOne \/ Before \/ After

SpecUpdateWave == InitUpdateWave /\ [][NextUpdateWave]_vars

\* --------------------------------------------------------------- SpecPhases
\* the two places that store a phase per note: the note map of notes.rs
\* under update_keys and generate_audio, and a generator under any sequence
\* of before, next, after and clear
InitPhases ==
    /\ keymap = KeyMapMain
    /\ NotesBuilt
    /\ WaveIdle
    /\ MainIdle
    /\ VisIdle

NextPhases ==
    \/ UpdateKeysFew
    \/ GenerateAudioOne
    \/ Before
    \/ NextSample
    \/ After
    \/ Clear

SpecPhases == InitPhases /\ [][NextPhases]_vars

\* ------------------------------------------------------------------ SpecVis
\* the window's event loop next to the thread that receives the audio
InitVis ==
    /\ NotesIdle
    /\ WaveIdle
    /\ MainIdle
    /\ renderer \in DrawSteps
    /\ audio_data = 0
    /\ wave_vertices = InitialVertices(renderer)
    /\ vis_state = None
    /\ drawn = "none"

\* Event::Resumed: the context is made current, the window is not paused
Resumed ==
    /\ drawn # "panic"
    /\ vis_state = None
    /\ vis_state' = Some(FALSE)
    /\ UNCHANGED <<renderer, audio_data, wave_vertices, drawn>>
    /\ UNCHANGED <<notesVars, waveVars, mainVars>>

\* Event::Suspended
Suspended ==
    /\ drawn # "panic"
    /\ vis_state # None
    /\ vis_state' = None
    /\ UNCHANGED <<renderer, audio_data, wave_vertices, drawn>>
    /\ UNCHANGED <<notesVars, waveVars, mainVars>>

\* the space key is pressed: the paused flag is flipped
SpacePressed ==
    /\ drawn # "panic"
    /\ vis_state' = IF vis_state = None THEN None ELSE Some(~vis_state[1])
    /\ UNCHANGED <<renderer, audio_data, wave_vertices, drawn>>
    /\ UNCHANGED <<notesVars, waveVars, mainVars>>

\* the receiving thread takes one buffer from the channel
ReceiveAudio ==
    /\ drawn # "panic"
    /\ \E audio_buf_len \in AudioBufLens :
          audio_data' = Extended(audio_data, audio_buf_len)
    /\ UNCHANGED <<renderer, wave_vertices, vis_state, drawn>>
    /\ UNCHANGED <<notesVars, waveVars, mainVars>>

\* Event::RedrawRequested, from the receiving thread or from the window
\* system: the draw step runs if the context is current
RedrawRequested ==
    /\ drawn # "panic"
    /\ IF vis_state = None
       THEN drawn' = "skipped" /\ UNCHANGED wave_vertices
       ELSE /\ wave_vertices' = Prepared(vis_state[1])
            /\ drawn' = FirstElement(Prepared(vis_state[1]))
    /\ UNCHANGED <<renderer, audio_data, vis_state>>
    /\ UNCHANGED <<notesVars, waveVars, mainVars>>

NextVis ==
    Resumed \/ Suspended \/ SpacePressed \/ ReceiveAudio \/ RedrawRequested

SpecVis == InitVis /\ [][NextVis]_vars

\* ----------------------------------------------------------------- SpecMain
\* the sampling loop and the render callback of main.rs, interleaved
InitMain ==
    /\ keymap = KeyMapMain
    /\ NotesBuilt
    /\ WaveIdle
    /\ MainIdle
    /\ VisIdle

\* one poll: get_keys, then the play / pause decision; the time of the
\* sleep that ends the loop body passes here
Poll ==
    /\ spc = "poll"
    /\ \E ks \in Polls, dt \in {0, 1}, ok \in BOOLEAN :
          LET e == IF elapsed + dt > INACTIVITY_TIME
                   THEN INACTIVITY_TIME + 1 ELSE elapsed + dt
          IN  /\ keys' = ks
              /\ IF Len(ks) > 0
                 THEN /\ elapsed' = 0
                      /\ IF is_paused
                         THEN /\ StreamWrapper_play(ok)
                              /\ stream_call' = [name |-> "play", ok |-> ok]
                              /\ spc' = IF ok THEN "lock" ELSE "exit"
                         ELSE /\ UNCHANGED <<playing, is_paused>>
                              /\ stream_call' = [name |-> "none", ok |-> TRUE]
                              /\ spc' = "lock"
                 ELSE /\ elapsed' = e
                      /\ IF Inactive(e)
                         THEN /\ StreamWrapper_pause(ok)
                              /\ stream_call' = [name |-> "pause", ok |-> ok]
                              /\ spc' = IF ok THEN "lock" ELSE "exit"
                         ELSE /\ UNCHANGED <<playing, is_paused>>
                              /\ stream_call' = [name |-> "none", ok |-> TRUE]
                              /\ spc' = "lock"
    /\ UNCHANGED <<mutex, shared, rpc, note_phases, read, published>>
    /\ UNCHANGED <<notesVars, waveVars, visVars>>

SamplerLock ==
    /\ spc = "lock"
    /\ Mutex_lock("sampler")
    /\ spc' = "drain"
    /\ UNCHANGED <<shared, keys, elapsed, is_paused, playing, rpc,
                   note_phases, read, published>>
    /\ UNCHANGED <<stream_call, notesVars, waveVars, visVars>>

Drain ==
    /\ spc = "drain"
    /\ shared' = <<>>
    /\ spc' = "extend"
    /\ UNCHANGED <<mutex, keys, elapsed, is_paused, playing, rpc,
                   note_phases, read, published>>
    /\ UNCHANGED <<stream_call, notesVars, waveVars, visVars>>

Extend ==
    /\ spc = "extend"
    /\ shared' = keys
    /\ published' = keys
    /\ spc' = "unlock"
    /\ UNCHANGED <<mutex, keys, elapsed, is_paused, playing, rpc,
                   note_phases, read>>
    /\ UNCHANGED <<stream_call, notesVars, waveVars, visVars>>

SamplerUnlock ==
    /\ spc = "unlock"
    /\ Mutex_unlock
    /\ spc' = "poll"
    /\ UNCHANGED <<shared, keys, elapsed, is_paused, playing, rpc,
                   note_phases, read, published>>
    /\ UNCHANGED <<stream_call, notesVars, waveVars, visVars>>

\* the stream calls the callback; buf.fill(0.0)
RenderStart ==
    /\ rpc = "idle"
    /\ playing
    /\ spc # "exit"
    /\ rpc' = "lock"
    /\ UNCHANGED <<mutex, shared, spc, keys, elapsed, is_paused, playing,
                   note_phases, read, published>>
    /\ UNCHANGED <<stream_call, notesVars, waveVars, visVars>>

RenderLock ==
    /\ rpc = "lock"
    /\ Mutex_lock("render")
    /\ rpc' = "read"
    /\ UNCHANGED <<shared, spc, keys, elapsed, is_paused, playing,
                   note_phases, read, published>>
    /\ UNCHANGED <<stream_call, notesVars, waveVars, visVars>>

\* the retain and the loop over active_keys
RenderRead ==
    /\ rpc = "read"
    /\ note_phases' = StartPhases(RetainPhases(note_phases, shared), shared)
    /\ read' = [keys |-> shared, locked |-> mutex = "render",
                complete |-> published]
    /\ rpc' = "unlock"
    /\ UNCHANGED <<mutex, shared, spc, keys, elapsed, is_paused, playing,
                   published>>
    /\ UNCHANGED <<stream_call, notesVars, waveVars, visVars>>

RenderUnlock ==
    /\ rpc = "unlock"
    /\ Mutex_unlock
    /\ rpc' = "synth"
    /\ UNCHANGED <<shared, spc, keys, elapsed, is_paused, playing,
                   note_phases, read, published>>
    /\ UNCHANGED <<stream_call, notesVars, waveVars, visVars>>

RenderSynth ==
    /\ rpc = "synth"
    /\ \E buf_len \in 1 .. MaxBufLen :
          note_phases' = AdvancePhases(note_phases, buf_len)
    /\ rpc' = "idle"
    /\ UNCHANGED <<mutex, shared, spc, keys, elapsed, is_paused, playing,
                   read, published>>
    /\ UNCHANGED <<stream_call, notesVars, waveVars, visVars>>

NextMain ==
    \/ Poll \/ SamplerLock \/ Drain \/ Extend \/ SamplerUnlock
    \/ RenderStart \/ RenderLock \/ RenderRead \/ RenderUnlock
    \/ RenderSynth

SpecMain == InitMain /\ [][NextMain]_vars

\* ------------------------------------------------- vocabulary of the claims
\* the note of a pitch, and the keys of a note that the snapshot holds
RelNote(pitch) == pitch - MIDI_OFFSET
KeysOfNote(n) == Range(VecAt(note_to_key, n + MIDI_OFFSET, <<>>))
Held(n) == KeysOfNote(n) \cap arg # {}
\* the notes that the snapshot's mapped keys name
Pressed == {RelNote(key_to_note[k][1]) : k \in arg \cap DOMAIN key_to_note}
Removed == DOMAIN prev \ DOMAIN notes
Updated == op = "update_keys"
Generated == op = "generate_audio"
\* the target volume of note n in the call that produced this state
TargetOf(n) ==
    IF prev[n].active THEN MAX_VOLUME \div Cardinality(DOMAIN prev) ELSE 0
Between(x, a, b) == (a <= x /\ x <= b) \/ (b <= x /\ x <= a)
GainSum(i) == SumOver(DOMAIN gains, [n \in DOMAIN gains |-> gains[n][i]])

\* C1: an entry leaves the map only in update_keys, and only when its
\* recomputed flag is false and its stored volume is exactly 0; an entry that
\* is held or has volume > 0 stays; generate_audio keeps the set of entries.
C1_RemovalTiming ==
    /\ Generated => DOMAIN notes = DOMAIN prev
    /\ Updated =>
          /\ \A n \in Removed : ~Held(n) /\ prev[n].volume = 0
          /\ \A n \in DOMAIN prev :
                (Held(n) \/ prev[n].volume > 0) => n \in DOMAIN notes
    /\ op = "new" => DOMAIN notes = {}

C1_Witness ==
    /\ Updated
    /\ Removed # {}
    /\ \E n \in DOMAIN prev : ~Held(n) /\ prev[n].volume > 0 /\ n \in DOMAIN notes

\* C2: after update_keys(snapshot) an entry is active iff a key of its
\* note_to_key list is in the snapshot, and every pitch with a mapped key in
\* the snapshot has an entry.
C2_ActiveIffHeld ==
    Updated =>
        /\ \A n \in DOMAIN notes : notes[n].active <=> Held(n)
        /\ Pressed \subseteq DOMAIN notes

C2_Witness ==
    /\ Updated
    /\ \E n \in DOMAIN notes \cap DOMAIN prev : notes[n].active /\ ~prev[n].active
    /\ \E n \in DOMAIN notes : ~notes[n].active /\ prev[n].active
    /\ Pressed \ DOMAIN prev # {}

\* C3: a held mapped key whose note has no entry gets a fresh entry
\* (active, volume 0, phase 0); one whose note has an entry gets that entry
\* with only the flag set.
C3_InsertOrActivate ==
    Updated =>
        \A n \in Pressed :
            /\ n \notin DOMAIN prev =>
                  notes[n] = [active |-> TRUE, phase |-> 0, volume |-> 0]
            /\ n \in DOMAIN prev =>
                  notes[n] = [prev[n] EXCEPT !.active = TRUE]

C3_Witness ==
    /\ Updated
    /\ \E n \in Pressed : n \notin DOMAIN prev
    /\ \E n \in Pressed :
          n \in DOMAIN prev /\ prev[n].volume > 0 /\ prev[n].phase # 0

\* C4: while every snapshot holds a key of the note (also another key of the
\* same pitch, also a re-press during the fade-out) the entry stays in the
\* map with its phase and volume as they were; generate_audio removes nothing.
C4_HeldNoteKeepsPhase ==
    /\ Updated =>
          \A n \in DOMAIN prev :
              Held(n) =>
                  /\ n \in DOMAIN notes
                  /\ notes[n].phase = prev[n].phase
                  /\ notes[n].volume = prev[n].volume
                  /\ notes[n].active
    /\ Generated => DOMAIN prev \subseteq DOMAIN notes

\* an aliased pitch held through its second key alone, and a fading note
\* pressed again, each with a phase to lose
C4_Witness ==
    /\ Updated
    /\ \E n \in DOMAIN prev :
          /\ Cardinality(KeysOfNote(n)) = 2
          /\ \E k \in KeysOfNote(n) : arg = {k} /\ \E j \in KeysOfNote(n) : j < k
          /\ prev[n].phase # 0
          /\ ~prev[n].active
          /\ prev[n].volume > 0
          /\ notes[n].phase # 0

\* C5: after generate_audio every active entry stores MAX_VOLUME / (number
\* of entries) and every inactive entry stores 0; N active entries sum to
\* MAX_VOLUME.
C5_TargetVolume ==
    Generated =>
        /\ \A n \in DOMAIN notes :
              /\ notes[n].active =>
                    notes[n].volume * Cardinality(DOMAIN notes) = MAX_VOLUME
              /\ ~notes[n].active => notes[n].volume = 0
        /\ (DOMAIN notes # {} /\ \A n \in DOMAIN notes : notes[n].active) =>
              SumOver(DOMAIN notes, [n \in DOMAIN notes |-> notes[n].volume])
                  = MAX_VOLUME

C5_Witness ==
    /\ Generated
    /\ Cardinality(DOMAIN notes) = 2
    /\ \A n \in DOMAIN notes : notes[n].active /\ 4 * notes[n].volume = 2 * MAX_VOLUME

\* C6: every stored volume is in [0, MAX_VOLUME], and at every sample of a
\* generate_audio call the gains of all entries sum to at most MAX_VOLUME.
C6_VolumeBounded ==
    /\ \A n \in DOMAIN notes : 0 <= notes[n].volume /\ notes[n].volume <= MAX_VOLUME
    /\ Generated => \A i \in DOMAIN arg : GainSum(i) <= MAX_VOLUME

C6_Witness ==
    /\ Generated
    /\ Cardinality(DOMAIN notes) >= 2
    /\ \E i \in DOMAIN arg :
          /\ GainSum(i) = MAX_VOLUME
          /\ \E n \in DOMAIN gains :
                gains[n][i] # prev[n].volume /\ gains[n][i] # notes[n].volume

\* C7: on a non-empty buffer the gain at sample offset 0 is the volume the
\* note stored before the call, whatever the target.
C7_GainAtZero ==
    (Generated /\ Len(arg) > 0) =>
        \A n \in DOMAIN prev : gains[n][1] = prev[n].volume

C7_Witness ==
    /\ Generated
    /\ Len(arg) > 0
    /\ \E n \in DOMAIN prev : prev[n].volume > 0 /\ TargetOf(n) # prev[n].volume
    /\ \E n \in DOMAIN prev : prev[n].volume = 0 /\ TargetOf(n) > 0

\* C8: at every sample idx with 3 * idx >= len the gain is the target
\* volume; at smaller idx it lies between the stored volume and the target.
C8_FadeCompletion ==
    Generated =>
        \A n \in DOMAIN prev : \A i \in DOMAIN arg :
            IF 3 * (i - 1) >= Len(arg)
            THEN gains[n][i] = TargetOf(n)
            ELSE Between(gains[n][i], prev[n].volume, TargetOf(n))

C8_Witness ==
    /\ Generated
    /\ \E n \in DOMAIN prev : \E i, j \in DOMAIN arg :
          /\ 3 * (i - 1) < Len(arg)
          /\ gains[n][i] # prev[n].volume
          /\ gains[n][i] # TargetOf(n)
          /\ 3 * (j - 1) >= Len(arg)
          /\ gains[n][j] = TargetOf(n)

\* C9: the gain at the last sample of a generate_audio call on a non-empty
\* buffer is the volume the call commits.
C9_NoJumpBetweenBuffers ==
    (Generated /\ Len(arg) > 0) =>
        \A n \in DOMAIN notes : gains[n][Len(arg)] = notes[n].volume

\* C10: with an empty note map generate_audio leaves every sample of the
\* buffer and the note map as they were.
C10_EmptyMapNoOp ==
    (Generated /\ DOMAIN prev = {}) => (buf = arg /\ notes = prev)

C10_Witness ==
    /\ Generated
    /\ DOMAIN prev = {}
    /\ Len(arg) = MaxBufLen
    /\ \A i \in DOMAIN arg : arg[i] # 0

IsZeroed(b) == \A i \in DOMAIN b : b[i] = 0

\* C11 (as stated): whenever the most recent update_keys received an empty
\* snapshot, generate_audio leaves a pre-zeroed buffer all zero.
C11_SilentWhenNoKeys ==
    (Generated /\ snapshot = {} /\ IsZeroed(arg)) => IsZeroed(buf)

\* C11 (amended): whenever the most recent update_keys received an empty
\* snapshot and every entry's stored volume is 0 (the fade-out of the
\* released notes has been rendered, or the map is empty), generate_audio
\* leaves a pre-zeroed buffer all zero.
C11_SilentAfterFade ==
    (/\ Generated
     /\ snapshot = {}
     /\ IsZeroed(arg)
     /\ \A n \in DOMAIN prev : prev[n].volume = 0) => IsZeroed(buf)

\* released notes that have faded out, one of them at a phase with a
\* non-zero sine, rendered into a zeroed buffer
C11_Witness ==
    /\ Generated
    /\ snapshot = {}
    /\ Len(arg) > 0
    /\ IsZeroed(arg)
    /\ DOMAIN prev # {}
    /\ \A n \in DOMAIN prev : prev[n].volume = 0
    /\ \E n \in DOMAIN prev : Sin(prev[n].phase) # 0

\* the configuration holds only recognised key names and pitches 0 .. 127
ValidConfig ==
    /\ DOMAIN keymap \subseteq Keys
    /\ \A k \in DOMAIN keymap :
          keymap[k] = None \/ (0 <= keymap[k][1] /\ keymap[k][1] <= 127)

\* C12: with a valid configuration, update_keys completes without error on
\* a snapshot of any 8-bit key ids, and a key id that maps to no pitch or is
\* no recognised key creates no entry and changes no entry.
C12_AnyKeyIdIgnored ==
    ValidConfig =>
        /\ op # "panic in update_keys"
        /\ Updated =>
              /\ DOMAIN notes \ DOMAIN prev \subseteq Pressed
              /\ \A n \in (DOMAIN notes \cap DOMAIN prev) \ Pressed :
                    notes[n] = [prev[n] EXCEPT !.active = Held(n)]

\* Notes::new returned Ok for the configuration
Accepted == op \notin {"config", "Err", "panic in generate_maps"}
\* the slots of the two tables, read as the Vecs hold them
NoteOfKey(k) == VecAt(key_to_note, k, None)
KeyList(p) == VecAt(note_to_key, p, <<>>)
Slots == 0 .. (MidiNoteMAX - 1)

\* C13: for every accepted configuration, key k is in note_to_key[p] iff
\* key_to_note[k] = p, and each key is in at most one pitch's list, at most
\* once.
C13_TablesConsistent ==
    Accepted =>
        /\ \A k \in DOMAIN key_to_note :
              /\ k \in Slots
              /\ NoteOfKey(k) # None =>
                    /\ NoteOfKey(k)[1] \in Slots
                    /\ k \in Range(KeyList(NoteOfKey(k)[1]))
        /\ \A p \in DOMAIN note_to_key :
              /\ p \in Slots
              /\ \A k \in Range(KeyList(p)) : NoteOfKey(k) = Some(p)
              /\ Cardinality(Range(KeyList(p))) = Len(KeyList(p))
        /\ \A k \in Keys \cup KeyIds :
              Cardinality({p \in DOMAIN note_to_key : k \in Range(KeyList(p))})
                  = IF NoteOfKey(k) = None THEN 0 ELSE 1

\* an accepted configuration with two keys on one pitch and a key on
\* another, in use
C13_Witness ==
    /\ Accepted
    /\ Updated
    /\ \E p \in DOMAIN note_to_key : Len(KeyList(p)) = 2
    /\ Cardinality(DOMAIN note_to_key) >= 2

\* the configuration gives some key a pitch outside 0 .. 127
HasPitchOutOfRange ==
    \E k \in DOMAIN keymap :
        keymap[k] # None /\ ~(0 <= keymap[k][1] /\ keymap[k][1] <= 127)

\* C14: for a configuration with a pitch outside 0 .. 127 generate_maps
\* returns the error and builds no tables; it neither accepts the pitch nor
\* panics.
C14_RejectsPitchOutOfRange ==
    HasPitchOutOfRange =>
        /\ op \in {"config", "Err"}
        /\ key_to_note = <<>>
        /\ note_to_key = <<>>

\* C15: with the tables of an accepted configuration, update_keys on a
\* snapshot of recognised keys raises no runtime error: the relative note
\* does not overflow i8 and the index into note_to_key is within bounds.
C15_NoRuntimeError ==
    (Accepted /\ snapshot \subseteq Keys) => op # "panic in update_keys"

\* the slot of note n in the generator's phase array
StoredPhase(n) ==
    LET idx == CHOOSE o \in note_idx(n) : SlotOk(o)
    IN  VecAt(gen.phase.note_phases, idx[1], 0)

\* C16: the phase at offset 0 of a buffer of a note that has been rendered
\* before (and not cleared since) is the phase at the end of that note's
\* previous buffer, modulo a full turn, whatever other notes were rendered
\* in between.
C16_PhaseContinuity ==
    (call.name = "before" /\ call.ok /\ call.arg \in DOMAIN ended) =>
        Phase_next(gen.phase, 0) = ended[call.arg]

\* a note loaded again after another note was current, both rendered before,
\* at a phase other than 0
C16_Witness ==
    /\ call.name = "before"
    /\ call.ok
    /\ call.arg \in DOMAIN ended
    /\ ended[call.arg] # 0
    /\ call.was # call.arg
    /\ call.was \in DOMAIN ended
    /\ ended[call.was] # 0

\* C17: after clear(n) on a generator of any of the four kinds the stored
\* phase of note n is zero, whatever phase had been committed for n.
C17_ClearResetsPhase ==
    (call.name = "clear" /\ call.ok /\ \E o \in note_idx(call.arg) : SlotOk(o))
        => StoredPhase(call.arg) = 0

\* the notes that update_keys removed at a phase other than 0 and that are
\* in the map again, not rendered since
Retriggered == DOMAIN dropped \cap DOMAIN notes

\* C18: a note that update_keys removed and that is triggered again starts
\* its first buffer from phase 0, not from the phase it had when it was
\* removed.
C18_RetriggerFromZero ==
    \A n \in Retriggered : notes[n].phase = 0 /\ notes[n].phase # dropped[n]

\* a retriggered note next to a note that kept its phase
C18_Witness ==
    /\ Updated
    /\ Retriggered # {}
    /\ \E n \in DOMAIN notes \ Retriggered : notes[n].phase # 0

\* C19: a note without a held key in the most recent snapshot has stored
\* volume 0 after generate_audio, and an update_keys call that finds a note
\* with volume 0 and no held key removes its entry; so a released note is
\* gone after one generate_audio and the update_keys that follows it.
C19_ReleasedNoteRemoved ==
    /\ Generated =>
          \A n \in DOMAIN notes :
              KeysOfNote(n) \cap snapshot = {} => notes[n].volume = 0
    /\ Updated =>
          \A n \in DOMAIN prev :
              (~Held(n) /\ prev[n].volume = 0) => n \notin DOMAIN notes

\* a note that had sounded, released and faded to volume 0, is removed
\* while another note stays
C19_Witness ==
    /\ Updated
    /\ \E n \in DOMAIN prev :
          /\ ~Held(n)
          /\ ~prev[n].active
          /\ prev[n].volume = 0
          /\ prev[n].phase # 0
          /\ n \notin DOMAIN notes
    /\ DOMAIN notes # {}

\* C20: in every interleaving the render callback reads the shared snapshot
\* only while it holds the mutex, and what it reads is the complete key set
\* of one poll (the last one published) or the initial empty set, never the
\* state between the drain and the extend.
C20_SnapshotReadAtomic ==
    /\ rpc = "read" => mutex = "render"
    /\ read.locked
    /\ read.keys = read.complete
    /\ read.complete \in Polls

\* the callback has read a non-empty snapshot while the sampling loop waits
\* for the mutex with the keys of another poll
C20_Witness ==
    /\ rpc = "unlock"
    /\ mutex = "render"
    /\ read.keys # <<>>
    /\ spc = "lock"
    /\ keys # read.keys

\* C21: whenever the render callback is in its synthesis loop the mutex is
\* free or held by the sampling loop.
C21_SynthesisOutsideLock ==
    rpc = "synth" => mutex \in {"free", "sampler"}

\* the sampling loop replaces the snapshot while the callback synthesises
C21_Witness ==
    /\ rpc = "synth"
    /\ mutex = "sampler"
    /\ spc = "unlock"
    /\ shared # read.keys

\* the last step of the sampling loop was a poll
Polled == spc \in {"lock", "exit"}

\* C22: a poll requests a pause of the stream only if it observed no held
\* keys and the time since the last poll with held keys (or since start-up)
\* exceeds INACTIVITY_TIME; while the stream is not playing, the last call
\* on it was such a pause request, or a resume that failed.
C22_PauseOnlyWhenInactive ==
    /\ (Polled /\ stream_call.name = "pause") =>
          (keys = <<>> /\ elapsed > INACTIVITY_TIME)
    /\ ~playing =>
          \/ stream_call.name = "pause"
          \/ stream_call.name = "play" /\ ~stream_call.ok

\* a poll without keys after more than INACTIVITY_TIME has paused a stream
\* whose callback still holds notes
C22_Witness ==
    /\ Polled
    /\ stream_call = [name |-> "pause", ok |-> TRUE]
    /\ ~playing
    /\ DOMAIN note_phases # {}

\* the sine of the phase at the offset of the last next call
SineAtCall == Sin(gen.phase.current_phase + call.arg * gen.phase.wave_factor)

\* C23: every next() of the Square generator returns -AMP, 0 or +AMP:
\* -AMP where the sine is negative, +AMP where it is positive, 0 where it
\* is 0.
C23_SquareOutput ==
    (call.name = "next" /\ gen.wave = "Square") =>
        /\ call.ret \in {Some(0 - AMP), Some(0), Some(AMP)}
        /\ SineAtCall < 0 <=> call.ret = Some(0 - AMP)
        /\ SineAtCall > 0 <=> call.ret = Some(AMP)
        /\ SineAtCall = 0 <=> call.ret = Some(0)

\* the negative half of the wave, at an offset inside the buffer of a note
\* that has been rendered before
C23_Witness ==
    /\ call.name = "next"
    /\ gen.wave = "Square"
    /\ call.ret = Some(0 - AMP)
    /\ call.arg > 0
    /\ gen.phase.current_phase # 0

\* the keys of S in increasing order, each once
RECURSIVE SortedSeq(_)
SortedSeq(S) ==
    IF S = {} THEN <<>>
    ELSE LET m == CHOOSE x \in S : \A y \in S : x <= y
         IN  <<m>> \o SortedSeq(S \ {m})

\* C24: update_keys on a snapshot, in whatever order and with whatever
\* duplicates its keys were passed, produces the note map that the
\* duplicate-free sorted snapshot of the same key set produces from the same
\* state.
C24_SnapshotIsSet ==
    Updated => Done(notes) \in update_outcomes(prev, SortedSeq(Range(order)))

\* a snapshot passed out of order whose keys start two notes next to an
\* entry that fades
C24_Witness ==
    /\ Updated
    /\ Len(order) = 2
    /\ order[1] > order[2]
    /\ Cardinality(DOMAIN notes \ DOMAIN prev) = 2
    /\ \E n \in DOMAIN notes : ~notes[n].active /\ notes[n].volume > 0

\* C24, duplicates: a snapshot that names one key twice
C24_WitnessDuplicate ==
    /\ Updated
    /\ Len(order) = 2
    /\ order[1] = order[2]
    /\ DOMAIN notes \ DOMAIN prev # {}

\* the last step replaced the generator
Swapped == op = "update_wave" /\ call.name = "generator"

C26_SlotIndexNeverFails ==
    call.name \in {"before", "after", "clear"} =>
        /\ call.ok
        /\ \A idx \in note_idx(gen.phase.current_note) : SlotOk(idx)
        /\ \A n \in WaveNotes \ {gen.phase.current_note} :
               note_idx(n) \cap note_idx(gen.phase.current_note) = {}

\* C27: update_keys leaves the stored volume and the phase of every entry
\* that is in the map both before and after the call as they were; only
\* active flags and the set of entries change.
C27_UpdateKeepsVolumeAndPhase ==
    Updated =>
        \A n \in DOMAIN prev \cap DOMAIN notes :
            /\ notes[n].volume = prev[n].volume
            /\ notes[n].phase = prev[n].phase

\* a sounding note with an advanced phase is released while another note
\* starts
C27_Witness ==
    /\ Updated
    /\ \E n \in DOMAIN prev \cap DOMAIN notes :
           /\ prev[n].active /\ ~notes[n].active
           /\ notes[n].volume > 0 /\ notes[n].phase # 0
    /\ \E n \in DOMAIN prev \cap DOMAIN notes :
           /\ ~prev[n].active /\ notes[n].active
           /\ notes[n].volume > 0 /\ notes[n].phase # 0
    /\ DOMAIN notes \ DOMAIN prev # {}

\* C28: next() changes no state: after before(n) and any number of next
\* calls the stored phases, the current phase and the increment are those
\* that before(n) left, and the phase that after(L) commits is the loaded
\* phase advanced by L increments, modulo a full turn.
C28_NextChangesNoState ==
    /\ (loaded # None /\ loaded[1].open) => gen.phase = loaded[1].phase
    /\ (loaded # None /\ call.name = "after" /\ call.ok) =>
          StoredPhase(call.was) =
              (loaded[1].phase.current_phase
                  + call.arg * loaded[1].phase.wave_factor) % TAU

\* a commit after next calls on a note loaded at a phase other than 0
C28_Witness ==
    /\ call.name = "after" /\ call.ok /\ call.arg > 0
    /\ loaded # None /\ loaded[1].sampled
    /\ loaded[1].phase.current_phase # 0
    /\ loaded[1].phase.wave_factor # 0
    /\ StoredPhase(call.was) # loaded[1].phase.current_phase

\* C29: every stored phase, of the generator's phase array and of the note
\* map, is at least 0 and less than a full turn: the array starts at 0,
\* Phase::clear stores 0, and after() and generate_audio store the advanced
\* phase modulo a full turn.
C29_StoredPhasesInRange ==
    /\ \A i \in DOMAIN gen.phase.note_phases :
           0 <= gen.phase.note_phases[i] /\ gen.phase.note_phases[i] < TAU
    /\ \A n \in DOMAIN notes : 0 <= notes[n].phase /\ notes[n].phase < TAU
    /\ call.name = "generator" => gen.phase.note_phases = <<>>
    /\ \A n \in WaveNotes : \A o \in Phase_clear(gen.phase, n) :
           o # Panic =>
               \A idx \in note_idx(n) : VecAt(o[1].note_phases, idx[1], 0) = 0
    /\ (call.name = "after" /\ call.ok) =>
           StoredPhase(call.was) = Phase_next(gen.phase, call.arg) % TAU
    /\ Generated =>
           \A n \in DOMAIN notes :
               notes[n].phase = (prev[n].phase + Len(arg) * wave_factor(n)) % TAU

\* both stores have wrapped: the generator's last commit and the note map's
\* last buffer advanced a phase beyond a full turn
C29_Witness ==
    /\ call.name = "after" /\ call.ok
    /\ Phase_next(gen.phase, call.arg) > TAU
    /\ StoredPhase(call.was) # 0
    /\ Generated
    /\ \E n \in DOMAIN notes :
           /\ prev[n].phase + Len(arg) * wave_factor(n) >= TAU
           /\ notes[n].phase < prev[n].phase

\* C30: after a poll that observed a held key and did not end in an error
\* the stream is playing and not flagged as paused, whether or not it was
\* paused before that poll, and when the iteration of that poll is complete
\* the published snapshot is the key list the poll observed.
C30_HeldKeysResumeAndPublish ==
    /\ (keys # <<>> /\ spc # "exit") => (playing /\ ~is_paused)
    /\ (keys # <<>> /\ spc = "poll") => (published = keys /\ shared = keys)

\* an iteration is complete whose poll resumed a stream paused for inactivity
C30_Witness ==
    /\ spc = "poll"
    /\ keys # <<>>
    /\ stream_call = [name |-> "play", ok |-> TRUE]
    /\ published = keys
    /\ playing

\* a step of the sampling loop that is a poll
PollStep == spc = "poll" /\ spc' \in {"lock", "exit"}

\* C31: is_paused is false after construction and after every play() that
\* returned Ok, true after every pause() that returned Ok, and as it was
\* after a play() or pause() that returned an error, which ends the loop.
C31_FlagFollowsStream ==
    /\ [](stream_call.name = "new" => ~is_paused)
    /\ [][PollStep =>
             /\ (stream_call'.name = "play" /\ stream_call'.ok) => ~is_paused'
             /\ (stream_call'.name = "pause" /\ stream_call'.ok) => is_paused'
             /\ ~stream_call'.ok => (is_paused' = is_paused /\ spc' = "exit")
             /\ stream_call'.name = "none" => is_paused' = is_paused]_vars

\* a pause that failed on a playing stream, and a resume that failed on a
\* paused one
C31_Witness ==
    /\ spc = "exit"
    /\ \/ stream_call = [name |-> "pause", ok |-> FALSE] /\ ~is_paused
       \/ stream_call = [name |-> "play", ok |-> FALSE] /\ is_paused

\* C32: whenever a redraw is handled, paused or not and also before any
\* audio buffer has been received, the wave's vertex list whose first
\* element is passed on is not empty.
C32_DrawNeverIndexesEmpty ==
    drawn \in {"ok", "panic"} => (wave_vertices > 0 /\ drawn = "ok")

====
